---- MODULE Spec2Model ----
(***************************************************************************)
(* Model of the resampling core of utils.py (identifyTimeIntervals,        *)
(* interpolate) and of the part of main.py that feeds it.                  *)
(*                                                                         *)
(* Timestamps are whole minutes (datetime values whose differences are     *)
(* timedelta(minutes = n)); sample values are small naturals; computed     *)
(* values are exact rationals.  Python's None is the empty tuple and a     *)
(* present value v is the one-element tuple <<v>>.                         *)
(***************************************************************************)
EXTENDS Integers, Sequences, FiniteSets, TLC

\* ------------------------------------------------------------------ bounds
MaxTime == 4
MaxLen == 3
MaxGap == 3

None == <<>>
Some(v) == <<v>>

\* Python's seq[-1]
Last(s) == s[Len(s)]

\* ------------------------------------------------------ input domains
RECURSIVE StrictSeqsFrom(_, _)
\* strictly increasing sequences of at most n timestamps, all >= lo
StrictSeqsFrom(lo, n) ==
    IF n = 0 THEN {<<>>}
    ELSE {<<>>} \cup UNION {{<<t>> \o s : s \in StrictSeqsFrom(t + 1, n - 1)} : t \in lo..MaxTime}

SortedSeries == StrictSeqsFrom(0, MaxLen) \ {<<>>}

\* the worked scenario of the specification: minutes 0,1,2,10,11,12, max gap 5
ScenarioTimes == <<0, 1, 2, 10, 11, 12>>
ScenarioGap == Some(5)

MaxIntervals == {None} \cup {Some(m) : m \in 1..MaxGap}

\* ------------------------------------------------------------------ state
VARIABLES
    it_pc,        \* identifyTimeIntervals called on its own: "idle" | "call" | "returned"
    it_times,     \* its argument times
    it_max,       \* its argument max_interval
    it_result,    \* the list it returned
    \* ---- one call of interpolate (datetime axis)
    pc,                \* position in interpolate: "idle" | "start" | "grid" | "fit" |
                       \* "fill" | "tag" | "done" | "raised"
    x_vals,            \* argument: timestamps
    y_vals,            \* argument: values
    order,             \* argument: spline order
    delta,             \* argument: grid step in minutes
    keep_old,          \* argument
    interpolation_mode,\* argument: "bspline" | "interp1d" | "univ"
    max_interval,      \* argument: None or Some(minutes)
    x_interp,          \* the grid
    y_interp,          \* the values on the grid
    y_writer,          \* per grid point, the statement that wrote y_interp there:
                       \* <<"zeros">>, <<"fit", k>> (k-th interval) or <<"fallback">>
    time_intervals,    \* result of identifyTimeIntervals(x_vals, max_interval)
    ti,                \* index of the interval the for-loop is at
    valid_inds,        \* mask over x_vals
    valid_inds_interp, \* mask over x_interp
    inds_interp,       \* returned list of interpolated grid indices (0-based)
    err,               \* the exception that left interpolate, "" if none
    \* ---- main.py
    m_pc,              \* position in the script: "idle" | "read" | "convert" | "split" |
                       \* "loop" | "call" | "done" | "raised"
    file,              \* the rows of the input csv below its header line
    data,              \* the dictionary of columns
    data_split,        \* property value -> dictionary of columns
    keys,              \* data_split.keys(), in insertion order
    ki,                \* index in keys of the group the for-loop is at
    csv_files,         \* names of the files written so far
    m_out,             \* the rows written to args.output
    m_err              \* the exception that ended the script, "" if none

itVars == <<it_pc, it_times, it_max, it_result>>
argVars == <<x_vals, y_vals, order, delta, keep_old, interpolation_mode, max_interval>>
workVars == <<x_interp, y_interp, y_writer, time_intervals, ti, valid_inds,
              valid_inds_interp, inds_interp, err>>
ipVars == <<pc, argVars, workVars>>
mainVars == <<m_pc, file, data, data_split, keys, ki, csv_files, m_out, m_err>>
outerVars == <<itVars, mainVars>>
vars == <<itVars, ipVars, mainVars>>

\* ------------------------------------------------ identifyTimeIntervals
RECURSIVE ITILoopNoReset(_, _, _, _, _)
\* the same loop with start left set after an interval is appended
ITILoopNoReset(times, mi, i, start, intervals) ==
    IF i > Len(times) THEN [start |-> start, intervals |-> intervals]
    ELSE IF times[i] - times[i - 1] <= mi
         THEN IF start = None
              THEN ITILoopNoReset(times, mi, i + 1, Some(times[i - 1]), intervals)
              ELSE ITILoopNoReset(times, mi, i + 1, start, intervals)
         ELSE IF start # None
              THEN ITILoopNoReset(times, mi, i + 1, start,
                                  Append(intervals, <<start[1], times[i - 1]>>))
              ELSE ITILoopNoReset(times, mi, i + 1, start, intervals)

RECURSIVE ITILoop(_, _, _, _, _)
\* the for-loop over i = 1 .. len(times)-1 (here i = 2 .. Len(times)),
\* carrying start and intervals
ITILoop(times, mi, i, start, intervals) ==
    IF i > Len(times) THEN [start |-> start, intervals |-> intervals]
    ELSE IF times[i] - times[i - 1] <= mi
         THEN IF start = None
              THEN ITILoop(times, mi, i + 1, Some(times[i - 1]), intervals)
              ELSE ITILoop(times, mi, i + 1, start, intervals)
         ELSE IF start # None
              THEN ITILoop(times, mi, i + 1, None,
                           Append(intervals, <<start[1], times[i - 1]>>))
              ELSE ITILoop(times, mi, i + 1, start, intervals)

identifyTimeIntervals(times, max_int) ==
    IF max_int = None
    THEN << <<times[1], Last(times)>> >>
    ELSE LET r == ITILoop(times, max_int[1], 2, None, <<>>)
         IN  IF r.start = Some(times[1])
             THEN << <<times[1], Last(times)>> >>
             ELSE r.intervals

\* ------------------------------------------------------- exact values
\* A computed value is the exact rational n/d in lowest terms, or unknown:
\* a value of a higher-order curve away from the cases written out below.
RECURSIVE GCD(_, _)
GCD(a, b) == IF b = 0 THEN a ELSE GCD(b, a % b)
Abs(a) == IF a < 0 THEN -a ELSE a

Rat(n, d) ==
    LET s == IF d < 0 THEN -1 ELSE 1
        g == GCD(Abs(n), Abs(d))
    IN  [known |-> TRUE, n |-> (s * n) \div g, d |-> (s * d) \div g]
Whole(y) == [known |-> TRUE, n |-> y, d |-> 1]
Unknown == [known |-> FALSE, n |-> 0, d |-> 1]

\* datetime.timestamp(): seconds since the epoch, applied alike to samples
\* and grid points
Unix(t) == 60 * t

RECURSIVE SetToSortedSeq(_)
\* sorted(list(S))
SetToSortedSeq(S) ==
    IF S = {} THEN <<>>
    ELSE LET m == CHOOSE a \in S : \A b \in S : a <= b
         IN  <<m>> \o SetToSortedSeq(S \ {m})

Range(s) == {s[i] : i \in DOMAIN s}

\* arr[mask] for the boolean mask t0 <= x <= t1 over x_vals: the selected
\* samples <<x_unix, y>> in their original order
RECURSIVE MaskedSamples(_, _, _, _, _)
MaskedSamples(xs, ys, t0, t1, i) ==
    IF i > Len(xs) THEN <<>>
    ELSE (IF xs[i] >= t0 /\ xs[i] <= t1 THEN << <<Unix(xs[i]), ys[i]>> >> ELSE <<>>)
         \o MaskedSamples(xs, ys, t0, t1, i + 1)

\* np.logical_and(np.array(xs) >= t0, np.array(xs) <= t1)
MaskOf(xs, t0, t1) == [i \in 1..Len(xs) |-> xs[i] >= t0 /\ xs[i] <= t1]
\* np.logical_or of two masks of equal length
MaskOr(a, b) == [i \in 1..Len(a) |-> a[i] \/ b[i]]

Increasing(pts) == \A i \in 1..(Len(pts) - 1) : pts[i][1] < pts[i + 1][1]

\* samples ordered by x, as interp1d orders them (assume_sorted = False)
SortedSamples(pts) ==
    LET xs == SetToSortedSeq({pts[i][1] : i \in 1..Len(pts)})
    IN  [j \in 1..Len(xs) |-> CHOOSE p \in Range(pts) : p[1] = xs[j]]

\* ----------------------------------------------- scipy's curve objects
\* What constructing the curve does: "ok", "ValueError" (caught by the
\* loop in interpolate) or "error" (fitpack's own exception class, which
\* is not a ValueError).
\* interp1d(x, y, kind = order): a spline of that order through all points
Interp1dOutcome(k, pts) ==
    IF Len(pts) < k + 1 THEN "ValueError" ELSE "ok"

\* BSpline(t = x, c = y, k = order): the samples' x are the knots, their y
\* the coefficients; needs at least 2k+2 knots in non-decreasing order
BSplineOutcome(k, pts) ==
    IF Len(pts) < 2 * k + 2 \/ ~Increasing(pts) THEN "ValueError" ELSE "ok"

\* UnivariateSpline(x, y, k = order): validates 1 <= k <= 5 and increasing
\* x with ValueError; the fitpack routine then requires more than k points
UnivOutcome(k, pts) ==
    IF ~Increasing(pts) \/ k < 1 \/ k > 5 THEN "ValueError"
    ELSE IF Len(pts) <= k THEN "error"
    ELSE "ok"

FitOutcome(mode, k, pts) ==
    CASE mode = "bspline" -> BSplineOutcome(k, pts)
      [] mode = "interp1d" -> Interp1dOutcome(k, pts)
      [] mode = "univ" -> UnivOutcome(k, pts)

\* index of the last sample at or before x, among the first n samples
HoldIndex(pts, n, x) ==
    CHOOSE j \in 1..n : pts[j][1] <= x /\ \A l \in 1..n : pts[l][1] <= x => l <= j

IsNode(pts, x) == \E j \in 1..Len(pts) : pts[j][1] = x
NodeValue(pts, x) == Whole((CHOOSE p \in Range(pts) : p[1] = x)[2])

\* the straight line through two neighbouring samples, at x
Linear(pts, x) ==
    IF IsNode(pts, x) THEN NodeValue(pts, x)
    ELSE LET j == HoldIndex(pts, Len(pts), x)
             x0 == pts[j][1]
             y0 == pts[j][2]
             x1 == pts[j + 1][1]
             y1 == pts[j + 1][2]
         IN  Rat(y0 * (x1 - x0) + (y1 - y0) * (x - x0), x1 - x0)

\* interp1d evaluated at x inside [min x, max x]
Interp1dEval(k, pts0, x) ==
    LET pts == SortedSamples(pts0)
    IN  IF k = 0 THEN Whole(pts[HoldIndex(pts, Len(pts), x)][2])
        ELSE IF k = 1 THEN Linear(pts, x)
        ELSE IF IsNode(pts, x) THEN NodeValue(pts, x)
        ELSE Unknown

\* BSpline with knots x and coefficients y, at x: for k = 0 it is the
\* coefficient of the knot span holding x, and the last span ends at the
\* last knot, so the last sample's y is never used
BSplineEval(k, pts, x) ==
    IF k = 0 THEN Whole(pts[HoldIndex(pts, Len(pts) - 1, x)][2])
    ELSE Unknown

RECURSIVE SumSeq(_)
\* sum of a sequence of numbers
SumSeq(q) == IF q = <<>> THEN 0 ELSE q[1] + SumSeq(Tail(q))

\* UnivariateSpline with the default smoothing factor s = len(x): fitpack
\* returns the least-squares polynomial of degree k when its squared
\* residual is at most s.  For k = 1 that is the regression line N(x)/D,
\* computed here in minutes from the first sample: the line is the same
\* in any translated and rescaled x, and the integers stay small.
UnivEval(k, pts, x) ==
    LET m == Len(pts)
        U(a) == (a - pts[1][1]) \div 60
        X(p) == U(p[1])
        Y(p) == p[2]
        XX(p) == U(p[1]) * U(p[1])
        XY(p) == U(p[1]) * p[2]
        Sx == SumSeq([i \in 1..m |-> X(pts[i])])
        Sy == SumSeq([i \in 1..m |-> Y(pts[i])])
        Sxx == SumSeq([i \in 1..m |-> XX(pts[i])])
        Sxy == SumSeq([i \in 1..m |-> XY(pts[i])])
        D == m * (m * Sxx - Sx * Sx)
        N(a) == Sy * (m * Sxx - Sx * Sx) + (m * Sxy - Sx * Sy) * (m * U(a) - Sx)
        Res(p) == (p[2] * D - N(p[1])) * (p[2] * D - N(p[1]))
    IN  IF k = 1
        THEN IF SumSeq([i \in 1..m |-> Res(pts[i])]) <= m * D * D THEN Rat(N(x), D) ELSE Unknown
        ELSE IF m = k + 1 /\ IsNode(pts, x) THEN NodeValue(pts, x)
        ELSE Unknown

\* func(x) for the curve built by the chosen method
FitEval(mode, k, pts, x) ==
    CASE mode = "bspline" -> BSplineEval(k, pts, x)
      [] mode = "interp1d" -> Interp1dEval(k, pts, x)
      [] mode = "univ" -> UnivEval(k, pts, x)

\* ----------------------------------------------------------- interpolate
\* the union forgotten: only the base grid is sorted
KeepOldBaseOnly(grid, xs) == SetToSortedSeq(Range(grid))

\* sorted(list(set(x_interp + x_vals)))
KeepOld(grid, xs) == SetToSortedSeq(Range(grid) \cup Range(xs))

\* x_unix, y_vals paired: every sample, in the order given
AllSamplesOf(xs, ys) == [i \in 1..Len(xs) |-> <<Unix(xs[i]), ys[i]>>]

\* line 192: x_interp = [x_vals[0]]
GridStart ==
    /\ pc = "start"
    /\ x_interp' = <<x_vals[1]>>
    /\ pc' = "grid"
    /\ UNCHANGED <<argVars, y_interp, y_writer, time_intervals, ti, valid_inds,
                   valid_inds_interp, inds_interp, err, outerVars>>

\* the while loop never ends for delta <= 0; the model stops it here, past
\* the longest grid a positive step gives
MaxGrid == (IF MaxTime > Last(ScenarioTimes) THEN MaxTime ELSE Last(ScenarioTimes)) + 2

\* the loop condition with the last sample shut out
NextFitsStrictly(grid, xs, d) == Last(grid) + d < Last(xs)

\* line 193: x_interp[-1] + delta <= x_vals[-1]
NextFits(grid, xs, d) == Last(grid) + d <= Last(xs)

\* lines 193-194: one turn of the while loop
GridAppend ==
    /\ pc = "grid"
    /\ NextFits(x_interp, x_vals, delta)
    /\ Len(x_interp) < MaxGrid
    /\ x_interp' = Append(x_interp, Last(x_interp) + delta)
    /\ UNCHANGED <<pc, argVars, y_interp, y_writer, time_intervals, ti, valid_inds,
                   valid_inds_interp, inds_interp, err, outerVars>>

\* lines 196-217: the loop has ended; keep_old, allocation, segmentation
GridDone ==
    /\ pc = "grid"
    /\ ~NextFits(x_interp, x_vals, delta)
    /\ LET grid == IF keep_old THEN KeepOld(x_interp, x_vals) ELSE x_interp
       IN  /\ x_interp' = grid
           /\ y_interp' = [i \in 1..Len(grid) |-> Whole(0)]
           /\ y_writer' = [i \in 1..Len(grid) |-> <<"zeros">>]
           /\ valid_inds_interp' = [i \in 1..Len(grid) |-> FALSE]
    /\ time_intervals' = identifyTimeIntervals(x_vals, max_interval)
    /\ valid_inds' = [i \in 1..Len(x_vals) |-> FALSE]
    /\ ti' = 1
    /\ pc' = "fit"
    /\ UNCHANGED <<argVars, inds_interp, err, outerVars>>

\* the samples of the interval the loop is at (lines 221, 225-229)
CurSamples ==
    MaskedSamples(x_vals, y_vals, time_intervals[ti][1], time_intervals[ti][2], 1)
\* the grid mask of that interval (line 232)
CurGridMask == MaskOf(x_interp, time_intervals[ti][1], time_intervals[ti][2])

\* lines 219-239: the curve is built; its values are written on the
\* interval's grid points and both masks are updated
FitWrite ==
    /\ pc = "fit" /\ ti <= Len(time_intervals)
    /\ FitOutcome(interpolation_mode, order, CurSamples) = "ok"
    /\ y_interp' = [i \in 1..Len(x_interp) |->
                      IF CurGridMask[i]
                      THEN FitEval(interpolation_mode, order, CurSamples, Unix(x_interp[i]))
                      ELSE y_interp[i]]
    /\ y_writer' = [i \in 1..Len(x_interp) |->
                      IF CurGridMask[i] THEN <<"fit", ti>> ELSE y_writer[i]]
    /\ valid_inds' = MaskOr(valid_inds,
                            MaskOf(x_vals, time_intervals[ti][1], time_intervals[ti][2]))
    /\ valid_inds_interp' = MaskOr(valid_inds_interp, CurGridMask)
    /\ ti' = ti + 1
    /\ UNCHANGED <<pc, argVars, x_interp, time_intervals, inds_interp, err, outerVars>>

\* lines 241-244: ValueError while building the curve; the interval is skipped
FitSkip ==
    /\ pc = "fit" /\ ti <= Len(time_intervals)
    /\ FitOutcome(interpolation_mode, order, CurSamples) = "ValueError"
    /\ ti' = ti + 1
    /\ UNCHANGED <<pc, argVars, x_interp, y_interp, y_writer, time_intervals, valid_inds,
                   valid_inds_interp, inds_interp, err, outerVars>>

\* an exception that is not a ValueError is not caught and leaves interpolate
FitRaise ==
    /\ pc = "fit" /\ ti <= Len(time_intervals)
    /\ FitOutcome(interpolation_mode, order, CurSamples) = "error"
    /\ pc' = "raised"
    /\ err' = "dfitpack.error"
    /\ UNCHANGED <<argVars, x_interp, y_interp, y_writer, time_intervals, ti, valid_inds,
                   valid_inds_interp, inds_interp, outerVars>>

\* lines 247-252: the global linear interp1d over all samples, evaluated
\* on the grid points no interval has covered
Fallback ==
    /\ pc = "fit" /\ ti > Len(time_intervals)
    /\ Interp1dOutcome(1, AllSamplesOf(x_vals, y_vals)) = "ok"
    /\ y_interp' = [i \in 1..Len(x_interp) |->
                      IF ~valid_inds_interp[i]
                      THEN Interp1dEval(1, AllSamplesOf(x_vals, y_vals), Unix(x_interp[i]))
                      ELSE y_interp[i]]
    /\ y_writer' = [i \in 1..Len(x_interp) |->
                      IF ~valid_inds_interp[i] THEN <<"fallback">> ELSE y_writer[i]]
    /\ pc' = "tag"
    /\ UNCHANGED <<argVars, x_interp, time_intervals, ti, valid_inds,
                   valid_inds_interp, inds_interp, err, outerVars>>

\* line 247 with fewer than two samples: interp1d raises ValueError, outside
\* any try block
FallbackRaise ==
    /\ pc = "fit" /\ ti > Len(time_intervals)
    /\ Interp1dOutcome(1, AllSamplesOf(x_vals, y_vals)) = "ValueError"
    /\ pc' = "raised"
    /\ err' = "ValueError"
    /\ UNCHANGED <<argVars, x_interp, y_interp, y_writer, time_intervals, ti, valid_inds,
                   valid_inds_interp, inds_interp, outerVars>>

RECURSIVE NotInSetOneBased(_, _, _)
\* the same list with indices counted from 1
NotInSetOneBased(grid, x_set, i) ==
    IF i > Len(grid) THEN <<>>
    ELSE (IF grid[i] \notin x_set THEN <<i>> ELSE <<>>) \o NotInSetOneBased(grid, x_set, i + 1)

\* [i for i, x in enumerate(x_interp) if x not in x_set], 0-based
RECURSIVE NotInSet(_, _, _)
NotInSet(grid, x_set, i) ==
    IF i > Len(grid) THEN <<>>
    ELSE (IF grid[i] \notin x_set THEN <<i - 1>> ELSE <<>>) \o NotInSet(grid, x_set, i + 1)

\* lines 276-281
Tag ==
    /\ pc = "tag"
    /\ inds_interp' = NotInSet(x_interp, Range(x_vals), 1)
    /\ pc' = "done"
    /\ UNCHANGED <<argVars, x_interp, y_interp, y_writer, time_intervals, ti, valid_inds,
                   valid_inds_interp, err, outerVars>>

InterpolateStep ==
    \/ GridStart
    \/ GridAppend
    \/ GridDone
    \/ FitWrite
    \/ FitSkip
    \/ FitRaise
    \/ Fallback
    \/ FallbackRaise
    \/ Tag

\* ---------------------------------------------- a call of interpolate
MaxVal == 1
MaxOrder == 2
MaxDelta == 2

Series == {<<xs, ys>> \in SortedSeries \X UNION {[1..n -> 0..MaxVal] : n \in 1..MaxLen} :
              Len(xs) = Len(ys)}

WorkIdle ==
    /\ x_interp = <<>> /\ y_interp = <<>> /\ y_writer = <<>>
    /\ time_intervals = <<>> /\ ti = 0
    /\ valid_inds = <<>> /\ valid_inds_interp = <<>>
    /\ inds_interp = <<>> /\ err = ""

MainIdle ==
    /\ m_pc = "idle" /\ file = <<>> /\ data = <<>> /\ data_split = <<>>
    /\ keys = <<>> /\ ki = 0 /\ csv_files = {} /\ m_out = <<>> /\ m_err = ""

ITIdle ==
    /\ it_pc = "idle" /\ it_times = <<>> /\ it_max = None /\ it_result = <<>>

\* the values of the worked scenario's six samples
ScenarioValues == <<0, 1, 0, 1, 0, 1>>

Init ==
    /\ pc = "start"
    /\ \/ /\ \E s \in Series : x_vals = s[1] /\ y_vals = s[2]
          /\ order \in 0..MaxOrder
          /\ delta \in -1..MaxDelta
          /\ keep_old \in BOOLEAN
          /\ interpolation_mode \in {"bspline", "interp1d", "univ"}
          /\ max_interval \in MaxIntervals
       \/ /\ x_vals = ScenarioTimes /\ y_vals = ScenarioValues
          /\ order \in 0..1
          /\ delta \in {1, 3}
          /\ keep_old \in BOOLEAN
          /\ interpolation_mode = "interp1d"
          /\ max_interval = ScenarioGap
    /\ WorkIdle
    /\ ITIdle
    /\ MainIdle

Next == InterpolateStep

Spec == Init /\ [][Next]_vars

\* ------------------------------- interpolate on a plain-number axis
\* lines 254-274: x_vals[0] is no datetime.  The positions of this branch
\* are "nstart", "nkeep" and "nfit"; it joins the other branch at "tag".

\* np.arange(start, stop, step) for integers and step > 0: start,
\* start + step, ... up to but not including stop
arange(start, stop, step) ==
    [k \in 1..((stop - start + step - 1) \div step) |-> start + (k - 1) * step]

\* numpy broadcasting of two one-dimensional shapes
Broadcastable(n, m) == n = m \/ n = 1 \/ m = 1

\* ndarray + list: the list becomes an array and the two are added
\* element by element, a length-one operand being repeated
BroadcastAdd(a, b) ==
    LET n == IF Len(a) = 1 THEN Len(b) ELSE Len(a)
    IN  [i \in 1..n |-> a[IF Len(a) = 1 THEN 1 ELSE i] + b[IF Len(b) = 1 THEN 1 ELSE i]]

\* lines 256-259 with max_interval None
NumArange ==
    /\ pc = "nstart"
    /\ max_interval = None
    /\ x_interp' = arange(x_vals[1], Last(x_vals), delta)
    /\ pc' = IF keep_old THEN "nkeep" ELSE "nfit"
    /\ UNCHANGED <<argVars, y_interp, y_writer, time_intervals, ti, valid_inds,
                   valid_inds_interp, inds_interp, err, outerVars>>

\* line 256: the assertion fails
NumAssertRaise ==
    /\ pc = "nstart"
    /\ max_interval # None
    /\ pc' = "raised"
    /\ err' = "AssertionError"
    /\ UNCHANGED <<argVars, x_interp, y_interp, y_writer, time_intervals, ti, valid_inds,
                   valid_inds_interp, inds_interp, outerVars>>

\* line 263: sorted(list(set(x_interp + x_vals))), x_interp being an array
NumKeepOld ==
    /\ pc = "nkeep"
    /\ Broadcastable(Len(x_interp), Len(x_vals))
    /\ x_interp' = SetToSortedSeq(Range(BroadcastAdd(x_interp, x_vals)))
    /\ pc' = "nfit"
    /\ UNCHANGED <<argVars, y_interp, y_writer, time_intervals, ti, valid_inds,
                   valid_inds_interp, inds_interp, err, outerVars>>

\* line 263: the shapes do not broadcast
NumKeepOldRaise ==
    /\ pc = "nkeep"
    /\ ~Broadcastable(Len(x_interp), Len(x_vals))
    /\ pc' = "raised"
    /\ err' = "ValueError: operands could not be broadcast together"
    /\ UNCHANGED <<argVars, x_interp, y_interp, y_writer, time_intervals, ti, valid_inds,
                   valid_inds_interp, inds_interp, outerVars>>

\* a grid point the samples do not enclose
OutOfRange(x) == x < x_vals[1] \/ x > Last(x_vals)

\* what lines 266-274 do: "ok", or the exception that leaves interpolate.
\* interp1d refuses to evaluate outside the samples' range; BSpline and
\* UnivariateSpline extrapolate.
NumFitOutcome ==
    LET built == FitOutcome(interpolation_mode, order, AllSamplesOf(x_vals, y_vals))
    IN  IF built = "error" THEN "dfitpack.error"
        ELSE IF built = "ValueError" THEN "ValueError"
        ELSE IF interpolation_mode = "interp1d"
                /\ \E i \in 1..Len(x_interp) : OutOfRange(x_interp[i])
             THEN "ValueError"
        ELSE "ok"

\* lines 266-274: the curve over all samples, evaluated on the whole grid.
\* A curve does not change when its x axis is rescaled, so the samples are
\* handed to FitEval on the scale it expects; extrapolated values are left
\* unknown.
NumFit ==
    /\ pc = "nfit"
    /\ NumFitOutcome = "ok"
    /\ y_interp' = [i \in 1..Len(x_interp) |->
                      IF OutOfRange(x_interp[i]) THEN Unknown
                      ELSE FitEval(interpolation_mode, order, AllSamplesOf(x_vals, y_vals),
                                   Unix(x_interp[i]))]
    /\ y_writer' = [i \in 1..Len(x_interp) |-> <<"fit", 0>>]
    /\ pc' = "tag"
    /\ UNCHANGED <<argVars, x_interp, time_intervals, ti, valid_inds,
                   valid_inds_interp, inds_interp, err, outerVars>>

\* lines 266-274 raise; nothing catches it
NumFitRaise ==
    /\ pc = "nfit"
    /\ NumFitOutcome # "ok"
    /\ pc' = "raised"
    /\ err' = NumFitOutcome
    /\ UNCHANGED <<argVars, x_interp, y_interp, y_writer, time_intervals, ti, valid_inds,
                   valid_inds_interp, inds_interp, outerVars>>

NumInit ==
    /\ pc = "nstart"
    /\ \E s \in Series : x_vals = s[1] /\ y_vals = s[2]
    /\ order \in 0..MaxOrder
    /\ delta \in 1..MaxDelta
    /\ keep_old \in BOOLEAN
    /\ interpolation_mode \in {"bspline", "interp1d", "univ"}
    /\ max_interval \in MaxIntervals
    /\ WorkIdle
    /\ ITIdle
    /\ MainIdle

NumNext ==
    \/ NumArange
    \/ NumAssertRaise
    \/ NumKeepOld
    \/ NumKeepOldRaise
    \/ NumFit
    \/ NumFitRaise
    \/ Tag

SpecNumeric == NumInit /\ [][NumNext]_vars

\* ------------------------------------- identifyTimeIntervals on its own
ArgsIdle ==
    /\ x_vals = <<>> /\ y_vals = <<>> /\ order = 0 /\ delta = 0 /\ keep_old = FALSE
    /\ interpolation_mode = "" /\ max_interval = None

\* series long enough to hold two runs that are each closed by a wider gap
SegTime == 6
SegLen == 5

RECURSIVE StrictSeqs(_, _, _)
\* strictly increasing sequences of at most n timestamps in lo..hi
StrictSeqs(lo, hi, n) ==
    IF n = 0 THEN {<<>>}
    ELSE {<<>>} \cup UNION {{<<t>> \o s : s \in StrictSeqs(t + 1, hi, n - 1)} : t \in lo..hi}

SegSeries == StrictSeqs(0, SegTime, SegLen) \ {<<>>}

ITInit ==
    /\ it_pc = "call"
    /\ \/ /\ it_times \in SortedSeries \cup SegSeries
          /\ it_max \in MaxIntervals \cup {Some(MaxTime + 1), Some(SegTime + 1)}
       \/ /\ it_times = ScenarioTimes
          /\ it_max = ScenarioGap
    /\ it_result = <<>>
    /\ pc = "idle" /\ ArgsIdle /\ WorkIdle
    /\ MainIdle

ITCall ==
    /\ it_pc = "call"
    /\ it_result' = identifyTimeIntervals(it_times, it_max)
    /\ it_pc' = "returned"
    /\ UNCHANGED <<it_times, it_max, ipVars, mainVars>>

ITNext == ITCall

SpecIntervals == ITInit /\ [][ITNext]_vars

\* ------------------------------------------------------------- main.py
MaxRows == 3

\* texts of the datetime column: two that strptime parses and one it rejects
Stamps == {"00:00", "00:02", "n/a"}
\* one temperature text: the values play no part in what main does with a row
Rows == [source_id : {"a", "b"}, datetime : Stamps,
         property_name : {"cooling", "heating"}, temperature : {"1"}]
Files == UNION {[1..n -> Rows] : n \in 0..MaxRows}

\* datetime.strptime(x, pattern), in minutes
StampParses(str) == str \in {"00:00", "00:01", "00:02"}
ParseStamp(str) ==
    CASE str = "00:00" -> 0
      [] str = "00:01" -> 1
      [] str = "00:02" -> 2
\* x.strftime(pattern)
FormatStamp(t) == <<"00:00", "00:01", "00:02">>[t + 1]
\* float(e)
ParseFloat(str) ==
    CASE str = "0" -> 0
      [] str = "1" -> 1

\* readData: one list per column, in file order
readData(rows) ==
    [source_id |-> [i \in 1..Len(rows) |-> rows[i].source_id],
     datetime |-> [i \in 1..Len(rows) |-> rows[i].datetime],
     property_name |-> [i \in 1..Len(rows) |-> rows[i].property_name],
     temperature |-> [i \in 1..Len(rows) |-> rows[i].temperature]]

\* cast(l, float)
cast(l) == [i \in 1..Len(l) |-> ParseFloat(l[i])]
\* convertDatetime(l)
convertDatetime(l) == [i \in 1..Len(l) |-> ParseStamp(l[i])]

RECURSIVE FirstSeen(_, _)
\* the keys of {v: {} for v in prop_vals}: each value once, in order of
\* first appearance
FirstSeen(l, i) ==
    IF i > Len(l) THEN <<>>
    ELSE (IF \E j \in 1..(i - 1) : l[j] = l[i] THEN <<>> ELSE <<l[i]>>) \o FirstSeen(l, i + 1)

RECURSIVE WhereProp(_, _, _, _)
\* [v_ for v_, p in zip(col, prop_vals) if p == v]
WhereProp(col, prop_vals, v, i) ==
    IF i > Len(col) THEN <<>>
    ELSE (IF prop_vals[i] = v THEN <<col[i]>> ELSE <<>>) \o WhereProp(col, prop_vals, v, i + 1)

\* data_split[v], every column filtered by property_name == v
GroupOf(d, v) ==
    [source_id |-> WhereProp(d.source_id, d.property_name, v, 1),
     datetime |-> WhereProp(d.datetime, d.property_name, v, 1),
     property_name |-> WhereProp(d.property_name, d.property_name, v, 1),
     temperature |-> WhereProp(d.temperature, d.property_name, v, 1)]

\* len(l) != len(set(l))
HasDuplicates(l) == Len(l) # Cardinality(Range(l))

\* the duplicate check of splitProperties, on check_duplicates = ["datetime"]
SplitRaises(d) ==
    \E v \in Range(d.property_name) : HasDuplicates(GroupOf(d, v).datetime)

\* lines 23-24
MainRead ==
    /\ m_pc = "read"
    /\ data' = readData(file)
    /\ m_pc' = "convert"
    /\ UNCHANGED <<file, data_split, keys, ki, csv_files, m_out, m_err, ipVars, itVars>>

\* lines 27-28
MainConvert ==
    /\ m_pc = "convert"
    /\ \A i \in 1..Len(data.datetime) : StampParses(data.datetime[i])
    /\ data' = [data EXCEPT !.temperature = cast(data.temperature),
                            !.datetime = convertDatetime(data.datetime)]
    /\ m_pc' = "split"
    /\ UNCHANGED <<file, data_split, keys, ki, csv_files, m_out, m_err, ipVars, itVars>>

\* line 28 on a text strptime rejects
MainConvertRaise ==
    /\ m_pc = "convert"
    /\ \E i \in 1..Len(data.datetime) : ~StampParses(data.datetime[i])
    /\ m_pc' = "raised"
    /\ m_err' = "ValueError"
    /\ UNCHANGED <<file, data, data_split, keys, ki, csv_files, m_out, ipVars, itVars>>

\* line 31: splitProperties returns
MainSplit ==
    /\ m_pc = "split"
    /\ ~SplitRaises(data)
    /\ keys' = FirstSeen(data.property_name, 1)
    /\ data_split' = [v \in Range(data.property_name) |-> GroupOf(data, v)]
    /\ ki' = 1
    /\ m_pc' = "loop"
    /\ UNCHANGED <<file, data, csv_files, m_out, m_err, ipVars, itVars>>

\* line 31: splitProperties raises DuplicateException
MainSplitRaise ==
    /\ m_pc = "split"
    /\ SplitRaises(data)
    /\ m_pc' = "raised"
    /\ m_err' = "DuplicateException"
    /\ UNCHANGED <<file, data, data_split, keys, ki, csv_files, m_out, ipVars, itVars>>

\* lines 47-52: the call of interpolate on the group the loop is at
MainCall ==
    /\ m_pc = "loop" /\ ki <= Len(keys)
    /\ x_vals' = data_split[keys[ki]].datetime
    /\ y_vals' = data_split[keys[ki]].temperature
    /\ pc' = "start"
    /\ x_interp' = <<>> /\ y_interp' = <<>> /\ y_writer' = <<>>
    /\ time_intervals' = <<>> /\ ti' = 0
    /\ valid_inds' = <<>> /\ valid_inds_interp' = <<>>
    /\ inds_interp' = <<>> /\ err' = ""
    /\ m_pc' = "call"
    /\ UNCHANGED <<order, delta, keep_old, interpolation_mode, max_interval,
                   file, data, data_split, keys, ki, csv_files, m_out, m_err, itVars>>

\* padData: the one value of the column, repeated to length n
padData(col, n) == [i \in 1..n |-> CHOOSE v \in Range(col) : TRUE]
\* the assertion of padData
PadAsserts(col) == Cardinality(Range(col)) = 1

\* the marker written one row late
MarkInterpolatedOneBased(col, inds) ==
    [i \in 1..Len(col) |-> IF i \in Range(inds) THEN "interpolation" ELSE col[i]]

\* lines 63-64
MarkInterpolated(col, inds) ==
    [i \in 1..Len(col) |-> IF (i - 1) \in Range(inds) THEN "interpolation" ELSE col[i]]

\* lines 55-67 after interpolate has returned
MainStore ==
    /\ m_pc = "call" /\ pc = "done"
    /\ PadAsserts(data_split[keys[ki]].source_id)
    /\ data_split' = [data_split EXCEPT ![keys[ki]] =
          [datetime |-> x_interp,
           temperature |-> y_interp,
           source_id |-> MarkInterpolated(padData(@.source_id, Len(x_interp)), inds_interp),
           property_name |-> padData(@.property_name, Len(x_interp))]]
    /\ csv_files' = csv_files \cup {keys[ki]}
    /\ ki' = ki + 1
    /\ m_pc' = "loop"
    /\ pc' = "idle"
    /\ UNCHANGED <<file, data, keys, m_out, m_err, argVars, workVars, itVars>>

\* line 59: the group holds more than one source_id
MainPadRaise ==
    /\ m_pc = "call" /\ pc = "done"
    /\ ~PadAsserts(data_split[keys[ki]].source_id)
    /\ data_split' = [data_split EXCEPT ![keys[ki]].datetime = x_interp,
                                        ![keys[ki]].temperature = y_interp]
    /\ m_pc' = "raised"
    /\ m_err' = "AssertionError"
    /\ pc' = "idle"
    /\ UNCHANGED <<file, data, keys, ki, csv_files, m_out, argVars, workVars, itVars>>

\* an exception leaving interpolate ends the script
MainCallRaised ==
    /\ m_pc = "call" /\ pc = "raised"
    /\ m_pc' = "raised"
    /\ m_err' = err
    /\ UNCHANGED <<file, data, data_split, keys, ki, csv_files, m_out, ipVars, itVars>>

PropRank(v) == IF v = "cooling" THEN 1 ELSE 2

RECURSIVE RowsOfGroups(_, _, _)
\* flattenDict, first loop: the groups' rows one after the other
RowsOfGroups(ds, ks, i) ==
    IF i > Len(ks) THEN <<>>
    ELSE [j \in 1..Len(ds[ks[i]].datetime) |->
             [source_id |-> ds[ks[i]].source_id[j],
              datetime |-> ds[ks[i]].datetime[j],
              property_name |-> ds[ks[i]].property_name[j],
              temperature |-> ds[ks[i]].temperature[j]]]
         \o RowsOfGroups(ds, ks, i + 1)

\* sorted(zip(zip(datetime, property_name), order)): row a comes before row b
RowBefore(rows, a, b) ==
    \/ rows[a].datetime < rows[b].datetime
    \/ /\ rows[a].datetime = rows[b].datetime
       /\ \/ PropRank(rows[a].property_name) < PropRank(rows[b].property_name)
          \/ /\ rows[a].property_name = rows[b].property_name
             /\ a < b

RECURSIVE SortRows(_, _)
SortRows(rows, left) ==
    IF left = {} THEN <<>>
    ELSE LET a == CHOOSE c \in left : \A b \in left \ {c} : RowBefore(rows, c, b)
         IN  <<rows[a]>> \o SortRows(rows, left \ {a})

flattenDict(ds, ks) ==
    LET rows == RowsOfGroups(ds, ks, 1) IN SortRows(rows, 1..Len(rows))

\* datetimeToString on the datetime column
datetimeToString(rows) ==
    [i \in 1..Len(rows) |-> [rows[i] EXCEPT !.datetime = FormatStamp(@)]]

\* lines 70-76
MainFinish ==
    /\ m_pc = "loop" /\ ki > Len(keys)
    /\ m_out' = datetimeToString(flattenDict(data_split, keys))
    /\ csv_files' = csv_files \cup {"temperature"}
    /\ m_pc' = "done"
    /\ UNCHANGED <<file, data, data_split, keys, ki, m_err, ipVars, itVars>>

MainInit ==
    /\ m_pc = "read"
    /\ file \in Files
    /\ data = <<>> /\ data_split = <<>> /\ keys = <<>> /\ ki = 0
    /\ csv_files = {} /\ m_out = <<>> /\ m_err = ""
    \* the command line: -S, -T, -K, -I, -M
    /\ order \in 1..MaxOrder
    /\ delta = 1
    /\ keep_old \in BOOLEAN
    /\ interpolation_mode \in {"interp1d", "univ"}
    /\ max_interval \in {None, Some(1)}
    /\ pc = "idle" /\ x_vals = <<>> /\ y_vals = <<>>
    /\ WorkIdle
    /\ ITIdle

MainNext ==
    \/ MainRead
    \/ MainConvert
    \/ MainConvertRaise
    \/ MainSplit
    \/ MainSplitRaise
    \/ MainCall
    \/ InterpolateStep
    \/ MainStore
    \/ MainPadRaise
    \/ MainCallRaised
    \/ MainFinish

SpecMain == MainInit /\ [][MainNext]_vars

\* ======================================================================
\* Properties of identifyTimeIntervals (SpecIntervals)
\* ======================================================================
Span(times) == Last(times) - times[1]

\* C1: for a sorted series of length >= 1, max_interval = None or larger
\* than the whole span gives exactly the one interval [times[0], times[-1]].
C1_OneIntervalWhenGapUnbounded ==
    (it_pc = "returned" /\ (it_max = None \/ it_max[1] > Span(it_times)))
        => it_result = << <<it_times[1], Last(it_times)>> >>

\* first index of the run of samples that ends at the last sample: every
\* gap from there to the end is within mi
TrailingRunStart(times, mi) ==
    CHOOSE s \in 1..Len(times) :
        /\ \A i \in (s + 1)..Len(times) : times[i] - times[i - 1] <= mi
        /\ \A r \in 1..(s - 1) : \E i \in (r + 1)..Len(times) : times[i] - times[i - 1] > mi

\* C2: a run of consecutive samples with gaps <= max_interval that reaches
\* the last sample is closed and appended as the last interval, also when
\* it is not the first run; minutes 0,1,2,10,11,12 with max_interval 5
\* give [0,2] and [10,12].
C2_TrailingRunClosed ==
    (it_pc = "returned" /\ it_max # None) =>
        /\ LET s == TrailingRunStart(it_times, it_max[1])
           IN  s < Len(it_times) =>
                   /\ it_result # <<>>
                   /\ Last(it_result) = <<it_times[s], Last(it_times)>>
        /\ (it_times = ScenarioTimes /\ it_max = ScenarioGap)
               => it_result = << <<0, 2>>, <<10, 12>> >>

\* C14: the list identifyTimeIntervals returns for a sorted duplicate-free
\* series is well-formed: every interval has start <= end and both are input
\* timestamps, consecutive intervals are disjoint and ascending by start,
\* and no two neighbouring samples inside one interval are more than
\* max_interval apart.
C14_IntervalsWellFormed ==
    it_pc = "returned" =>
        /\ \A k \in 1..Len(it_result) :
               /\ it_result[k][1] <= it_result[k][2]
               /\ it_result[k][1] \in Range(it_times)
               /\ it_result[k][2] \in Range(it_times)
        /\ \A k \in 1..(Len(it_result) - 1) : it_result[k][2] < it_result[k + 1][1]
        /\ it_max # None =>
               \A k \in 1..Len(it_result) : \A i \in 2..Len(it_times) :
                   (it_times[i - 1] >= it_result[k][1] /\ it_times[i] <= it_result[k][2])
                       => it_times[i] - it_times[i - 1] <= it_max[1]

\* a returned list of two intervals, each holding more than one sample
C14_Witness ==
    /\ it_pc = "returned" /\ it_max # None
    /\ Len(it_result) >= 2
    /\ \A k \in 1..Len(it_result) : it_result[k][1] < it_result[k][2]

\* ======================================================================
\* Properties of interpolate (Spec)
\* ======================================================================
GridBuilt == pc \in {"fit", "tag", "done"}
OnGrid(t) == {i \in 1..Len(x_interp) : x_interp[i] = t}
SampleValue(t) == y_vals[CHOOSE j \in 1..Len(x_vals) : x_vals[j] = t]

\* C3: for a series of length >= 2 and step > 0, whatever the other
\* arguments, interpolate returns, y has the length of x, and every grid
\* point was written by an interval's fit or by the fallback.
C3_EveryGridPointValued ==
    (Len(x_vals) >= 2 /\ delta > 0) =>
        /\ pc # "raised"
        /\ pc = "done" =>
               /\ Len(y_interp) = Len(x_interp)
               /\ \A i \in 1..Len(x_interp) : y_writer[i] # <<"zeros">>

\* C4: with keep_old, every output point at an original timestamp is not
\* in inds_interp and carries that sample's value.  A value the model
\* leaves unknown is not counted against the claim.
C4_OriginalsKeepTheirValue ==
    (pc = "done" /\ keep_old) =>
        \A i \in 1..Len(x_interp) :
            x_interp[i] \in Range(x_vals) =>
                /\ (i - 1) \notin Range(inds_interp)
                /\ y_interp[i].known => y_interp[i] = Whole(SampleValue(x_interp[i]))

\* C5: for a sorted duplicate-free series and step > 0 the grid is
\* strictly increasing, and with keep_old every original timestamp is on
\* it exactly once.
C5_GridStrictlyIncreasing ==
    (GridBuilt /\ delta > 0) =>
        /\ \A i \in 1..(Len(x_interp) - 1) : x_interp[i] < x_interp[i + 1]
        /\ keep_old => \A j \in 1..Len(x_vals) : Cardinality(OnGrid(x_vals[j])) = 1

\* a returned grid with keep_old that holds an original timestamp off the
\* base grid and a base grid point that is no original timestamp
C5_Witness ==
    /\ pc = "done" /\ keep_old /\ delta > 1
    /\ \E j \in 1..Len(x_vals) : (x_vals[j] - x_vals[1]) % delta # 0
    /\ \E i \in 1..Len(x_interp) : x_interp[i] \notin Range(x_vals)

\* C6: one sample with keep_old is resampled without error into one point
\* at that timestamp, tagged Original, value unchanged, and no fallback
\* fit is attempted.
C6_SingleSampleKept ==
    (Len(x_vals) = 1 /\ keep_old /\ delta > 0) =>
        /\ pc # "raised"
        /\ pc = "done" =>
               /\ x_interp = x_vals
               /\ y_interp = <<Whole(y_vals[1])>>
               /\ inds_interp = <<>>
               /\ y_writer # << <<"fallback">> >>

SamplesIn(k) == MaskedSamples(x_vals, y_vals, time_intervals[k][1], time_intervals[k][2], 1)
GridIn(k) == {i \in 1..Len(x_interp) :
                 x_interp[i] >= time_intervals[k][1] /\ x_interp[i] <= time_intervals[k][2]}

\* C7: when an interval holds fewer than order+1 samples, the call does
\* not fail, that interval's grid points are written by the fallback, and
\* the intervals the method can fit are still fitted.
C7_ShortIntervalSkipped ==
    (delta > 0 /\ pc \in {"fit", "tag", "done", "raised"}
       /\ \E k \in 1..Len(time_intervals) : Len(SamplesIn(k)) < order + 1) =>
        /\ pc # "raised"
        /\ pc = "done" =>
             \A k \in 1..Len(time_intervals) : \A i \in GridIn(k) :
                /\ Len(SamplesIn(k)) < order + 1 => y_writer[i] = <<"fallback">>
                /\ FitOutcome(interpolation_mode, order, SamplesIn(k)) = "ok"
                       => y_writer[i] = <<"fit", k>>

\* C8: a zero or negative step is rejected with InvalidConfiguration:
\* the call ends in that error before any grid is built.
C8_NonPositiveStepRejected ==
    delta <= 0 =>
        \/ pc = "start"
        \/ pc = "raised" /\ err = "InvalidConfiguration"

\* C9: inds_interp is exactly the (0-based) grid indices whose timestamp
\* is no input timestamp, each listed once and in ascending order.
C9_IndsInterpAreTheNewPoints ==
    pc = "done" =>
        /\ \A i \in 1..Len(x_interp) :
               ((i - 1) \in Range(inds_interp)) <=> (x_interp[i] \notin Range(x_vals))
        /\ \A a \in 1..(Len(inds_interp) - 1) : inds_interp[a] < inds_interp[a + 1]
        /\ \A a \in 1..Len(inds_interp) : inds_interp[a] \in 0..(Len(x_interp) - 1)

\* a returned grid holding both original and new points, the first point
\* being original
C9_Witness ==
    /\ pc = "done"
    /\ inds_interp # <<>>
    /\ Len(inds_interp) < Len(x_interp)
    /\ \E i \in 1..Len(x_interp) : i > 1 /\ x_interp[i] \in Range(x_vals)

\* the maximal runs of two or more consecutive samples whose gaps are all
\* within max_int, as <<first timestamp, last timestamp>>; one run over the
\* whole series when max_int is None
MaximalRuns(xs, max_int) ==
    IF max_int = None
    THEN IF Len(xs) >= 2 THEN {<<xs[1], Last(xs)>>} ELSE {}
    ELSE {<<xs[a], xs[b]>> : <<a, b>> \in
             {p \in (1..Len(xs)) \X (1..Len(xs)) :
                 /\ p[1] < p[2]
                 /\ \A i \in (p[1] + 1)..p[2] : xs[i] - xs[i - 1] <= max_int[1]
                 /\ p[1] > 1 => xs[p[1]] - xs[p[1] - 1] > max_int[1]
                 /\ p[2] < Len(xs) => xs[p[2] + 1] - xs[p[2]] > max_int[1]}}

\* the runs the chosen method can fit
FittableRuns ==
    {r \in MaximalRuns(x_vals, max_interval) :
        FitOutcome(interpolation_mode, order, MaskedSamples(x_vals, y_vals, r[1], r[2], 1)) = "ok"}

\* C13: a grid point inside a run of consecutive samples with gaps <=
\* max_interval that has enough samples for the method holds the value of
\* the fit over exactly that run; every other grid point, and only those,
\* holds the value of the global linear fallback.  In the scenario
\* 0,1,2,10,11,12 with max_interval 5 the points 0-2 and 10-12 are fitted
\* and 3-9 come from the fallback.
C13_FitInsideRunsFallbackElsewhere ==
    (pc = "done" /\ delta > 0) =>
        \A i \in 1..Len(x_interp) :
            IF \E r \in FittableRuns : r[1] <= x_interp[i] /\ x_interp[i] <= r[2]
            THEN /\ y_writer[i][1] = "fit"
                 /\ time_intervals[y_writer[i][2]] \in FittableRuns
                 /\ time_intervals[y_writer[i][2]][1] <= x_interp[i]
                 /\ x_interp[i] <= time_intervals[y_writer[i][2]][2]
            ELSE y_writer[i] = <<"fallback">>

\* C12: with keep_old = false and step > 0 the grid is times[0] + k*step
\* for k = 0, 1, ...: it starts at times[0], neighbours differ by exactly
\* step, the last point is <= times[-1] and less than one step before it,
\* and times[-1] is on the grid exactly when it is a whole number of steps
\* from times[0].
C12_BaseGridIsTheStepSequence ==
    (GridBuilt /\ ~keep_old /\ delta > 0) =>
        /\ x_interp[1] = x_vals[1]
        /\ \A i \in 1..(Len(x_interp) - 1) : x_interp[i + 1] - x_interp[i] = delta
        /\ Last(x_interp) <= Last(x_vals)
        /\ Last(x_vals) - Last(x_interp) < delta
        /\ (Last(x_vals) \in Range(x_interp)) <=> ((Last(x_vals) - x_vals[1]) % delta = 0)

\* a returned base grid of more than one point that stops short of the
\* last sample
C12_Witness ==
    /\ pc = "done" /\ ~keep_old /\ delta > 1
    /\ Len(x_interp) >= 2
    /\ Last(x_interp) < Last(x_vals)

\* ======================================================================
\* Properties of interpolate on a plain-number axis (SpecNumeric)
\* ======================================================================
\* times[0] + k*step for every k with times[0] + k*step <= times[-1]
StepSequence(xs, d) == [k \in 1..((Last(xs) - xs[1]) \div d + 1) |-> xs[1] + (k - 1) * d]

\* C15: on a plain-number axis with max_interval = None the grid is the one
\* a calendar-time axis gives for the same offsets and step: the base grid
\* times[0] + k*step up to and including times[-1] when that is a whole
\* number of steps away, and with keep_old the sorted duplicate-free union
\* of the base grid and the original timestamps; building it does not fail.
C15_NumberAxisGridAsCalendarGrid ==
    (max_interval = None /\ delta > 0) =>
        /\ err # "ValueError: operands could not be broadcast together"
        /\ pc \in {"nfit", "tag", "done"} =>
               x_interp = (IF keep_old
                           THEN SetToSortedSeq(Range(StepSequence(x_vals, delta)) \cup Range(x_vals))
                           ELSE StepSequence(x_vals, delta))

\* ======================================================================
\* Properties of main.py (SpecMain)
\* ======================================================================
\* the group main has just finished with, and that group as splitProperties
\* delivered it
LastProcessed == data_split[keys[ki - 1]]
LastDelivered == GroupOf(data, keys[ki - 1])

\* C11: after main has processed a group, its property_name and source_id
\* columns are as long as its resampled datetime column, and source_id is
\* "interpolation" at exactly the indices interpolate returned as
\* interpolated and the group's own source id at every other index (in
\* every group processed so far: "interpolation" exactly on the timestamps
\* that are not the group's own); padData raises, leaving source_id
\* unpadded, exactly when the group holds more than one source id.
C11_AuxiliaryColumnsPaddedAndMarked ==
    /\ (m_pc = "loop" /\ ki > 1) =>
           /\ Len(LastProcessed.source_id) = Len(LastProcessed.datetime)
           /\ Len(LastProcessed.property_name) = Len(LastProcessed.datetime)
           /\ LastProcessed.datetime = x_interp
           /\ \A i \in 1..Len(LastProcessed.datetime) :
                  /\ LastProcessed.property_name[i] = keys[ki - 1]
                  /\ LastProcessed.source_id[i] =
                         (IF (i - 1) \in Range(inds_interp)
                          THEN "interpolation" ELSE LastDelivered.source_id[1])
    /\ m_pc \in {"loop", "call", "done", "raised"} =>
           \A j \in 1..(ki - 1) :
               /\ Cardinality(Range(GroupOf(data, keys[j]).source_id)) = 1
               /\ \A i \in 1..Len(data_split[keys[j]].datetime) :
                      (data_split[keys[j]].source_id[i] = "interpolation")
                          <=> (data_split[keys[j]].datetime[i]
                                  \notin Range(GroupOf(data, keys[j]).datetime))
    /\ (m_pc = "call" /\ pc = "done"
          /\ Cardinality(Range(data_split[keys[ki]].source_id)) > 1) =>
           (ENABLED MainPadRaise /\ ~ENABLED MainStore)
    /\ (m_pc = "raised" /\ m_err = "AssertionError") =>
           /\ Cardinality(Range(GroupOf(data, keys[ki]).source_id)) > 1
           /\ data_split[keys[ki]].source_id = GroupOf(data, keys[ki]).source_id

\* a processed group holding both an original and an interpolated row
C11_Witness ==
    /\ m_pc = "loop" /\ ki > 1
    /\ \E i \in 1..Len(LastProcessed.source_id) : LastProcessed.source_id[i] = "interpolation"
    /\ \E i \in 1..Len(LastProcessed.source_id) : LastProcessed.source_id[i] # "interpolation"
    /\ Len(LastProcessed.datetime) > Len(LastDelivered.datetime)

\* C10: every series main hands to interpolate is strictly sorted by
\* timestamp, without duplicates.
C10_SeriesHandedOverSorted ==
    m_pc = "call" => \A i \in 1..(Len(x_vals) - 1) : x_vals[i] < x_vals[i + 1]

====
